---- MODULE Spec2Model ----
(***************************************************************************)
(* Model of the between-graph, asynchronous, data-parallel skeleton of     *)
(* distributed_tensorflow_framework.ipynb: one parameter server task and   *)
(* the worker tasks of the cluster, each running worker(job_name,          *)
(* task_index).  A worker creates its server, opens a                      *)
(* MonitoredTrainingSession with a StopAtStepHook and loops                *)
(*     while not sess.should_stop(): sess.run(train_op)                    *)
(* The ps task calls server.join().  The shared variable global_step lives *)
(* on the parameter server and counts the updates.                         *)
(***************************************************************************)
EXTENDS Integers, FiniteSets, Sequences, TLC

\* ---- cluster -----------------------------------------------------------
NumPs == 1
NumWorkers == 2

\* last_step of the StopAtStepHook, scaled down
LastStep == 3

NoStep == -1

\* horizon of the exploration when the stop hook is altered
MaxStep == LastStep + NumWorkers + 1

PsTasks == {<<"ps", i>> : i \in 0..(NumPs - 1)}
WorkerTasks == {<<"worker", i>> : i \in 0..(NumWorkers - 1)}
cluster == PsTasks \cup WorkerTasks

job_name(t) == t[1]
task_index(t) == t[2]

VARIABLES
  pc,              \* position of every task inside worker(job_name, task_index)
  global_step,     \* tf.Variable(0, name='global_step') placed on the ps
  initialized,     \* the shared variables have been initialized/restored
  is_chief,        \* is_chief argument each worker passed to its session
  stop_requested,  \* per session: what sess.should_stop() returns
  saving_step,     \* per worker: global step of the checkpoint being written
  last_triggered,  \* per worker: step of the last checkpoint its saver wrote
  checkpoint_dir,  \* steps of the complete checkpoints in 'tem/train_logs'
  latest,          \* step the checkpoint state file points to
  final_ckpt       \* per worker: step of the checkpoint written at session end

vars == <<pc, global_step, initialized, is_chief, stop_requested,
          saving_step, last_triggered, checkpoint_dir, latest, final_ckpt>>

\* ---- is_chief=(task_index == task_index) --------------------------------
IsChief(idx) == (idx = idx)

Init ==
  /\ pc = [t \in cluster |-> "start"]
  /\ global_step = 0
  /\ initialized = FALSE
  /\ is_chief = [w \in WorkerTasks |-> FALSE]
  /\ stop_requested = [w \in WorkerTasks |-> FALSE]
  /\ saving_step = [w \in WorkerTasks |-> NoStep]
  /\ last_triggered = [w \in WorkerTasks |-> NoStep]
  /\ checkpoint_dir = {}
  /\ latest = NoStep
  /\ final_ckpt = [w \in WorkerTasks |-> NoStep]

\* worker('ps', i): create the server, then server.join()
StartPs(t) ==
  /\ job_name(t) = "ps"
  /\ pc[t] = "start"
  /\ pc' = [pc EXCEPT ![t] = "join"]
  /\ UNCHANGED <<global_step, initialized, is_chief, stop_requested,
                 saving_step, last_triggered, checkpoint_dir, latest, final_ckpt>>

\* worker('worker', i): create the server, build the graph, hooks and config
StartWorker(w) ==
  /\ job_name(w) = "worker"
  /\ pc[w] = "start"
  /\ pc' = [pc EXCEPT ![w] = "session"]
  /\ UNCHANGED <<global_step, initialized, is_chief, stop_requested,
                 saving_step, last_triggered, checkpoint_dir, latest, final_ckpt>>

\* with tf.train.MonitoredTrainingSession(..., is_chief=..., checkpoint_dir=...):
\* a chief initializes the variables or restores them from the latest
\* checkpoint; any other worker waits for the chief to have done so.
CreateSession(w) ==
  /\ pc[w] = "session"
  /\ is_chief' = [is_chief EXCEPT ![w] = IsChief(task_index(w))]
  /\ IF IsChief(task_index(w))
       THEN /\ global_step' = IF latest = NoStep THEN 0 ELSE latest
            /\ initialized' = TRUE
       ELSE /\ initialized
            /\ UNCHANGED <<global_step, initialized>>
  /\ pc' = [pc EXCEPT ![w] = "loop"]
  /\ UNCHANGED <<stop_requested,  saving_step, last_triggered,
                 checkpoint_dir, latest, final_ckpt>>

\* while not sess.should_stop():
LoopTest(w) ==
  /\ pc[w] = "loop"
  /\ pc' = [pc EXCEPT ![w] = IF stop_requested[w] THEN "end" ELSE "run"]
  /\ UNCHANGED <<global_step, initialized, is_chief, stop_requested,
                 saving_step, last_triggered, checkpoint_dir, latest, final_ckpt>>

\* sess.run(train_op) in flight interrupted by the stop condition (not the code)
RunTrainOpInterrupted(w) ==
  /\ pc[w] = "run"
  /\ IF global_step >= LastStep
       THEN /\ pc' = [pc EXCEPT ![w] = "end"]
            /\ UNCHANGED global_step
       ELSE /\ global_step' = global_step + 1
                      /\ pc' = [pc EXCEPT ![w] = "after_run"]
  /\ UNCHANGED <<initialized, is_chief, stop_requested, saving_step,
                 last_triggered, checkpoint_dir, latest, final_ckpt>>

\* sess.run(train_op): the update is applied on the ps and counted
RunTrainOp(w) ==
  /\ pc[w] = "run"
  /\ global_step' = global_step + 1
  /\ pc' = [pc EXCEPT ![w] = "after_run"]
  /\ UNCHANGED <<initialized, is_chief, stop_requested, saving_step,
                 last_triggered, checkpoint_dir, latest, final_ckpt>>

\* StopAtStepHook comparing with = instead of >= (not the code); a worker that
\* has run past MaxStep is not followed any further
AfterRunStopOnEqual(w) ==
  /\ pc[w] = "after_run"
  /\ global_step <= MaxStep
  /\ stop_requested' = [stop_requested EXCEPT
                          ![w] = @ \/ (global_step = LastStep)]
  /\ \/ /\ pc' = [pc EXCEPT ![w] = "loop"]
        /\ UNCHANGED saving_step
     \/ /\ is_chief[w]
        /\ saving_step' = [saving_step EXCEPT ![w] = global_step]
        /\ pc' = [pc EXCEPT ![w] = "save"]
  /\ UNCHANGED <<global_step, initialized, is_chief,
                 last_triggered, checkpoint_dir, latest, final_ckpt>>

\* after_run of the session hooks: StopAtStepHook(last_step) requests the stop
\* once global_step has reached last_step; on a chief the checkpoint saver
\* starts a checkpoint when its timer has fired.
AfterRun(w) ==
  /\ pc[w] = "after_run"
  /\ stop_requested' = [stop_requested EXCEPT
                          ![w] = @ \/ (global_step >= LastStep)]
  /\ \/ /\ pc' = [pc EXCEPT ![w] = "loop"]
        /\ UNCHANGED saving_step
     \/ /\ is_chief[w]
        /\ saving_step' = [saving_step EXCEPT ![w] = global_step]
        /\ pc' = [pc EXCEPT ![w] = "save"]
  /\ UNCHANGED <<global_step, initialized, is_chief,
                 last_triggered, checkpoint_dir, latest, final_ckpt>>

\* the checkpoint started in after_run is complete
SaveDone(w) ==
  /\ pc[w] = "save"
  /\ checkpoint_dir' = checkpoint_dir \cup {saving_step[w]}
  /\ latest' = saving_step[w]
  /\ last_triggered' = [last_triggered EXCEPT ![w] = saving_step[w]]
  /\ saving_step' = [saving_step EXCEPT ![w] = NoStep]
  /\ pc' = [pc EXCEPT ![w] = "loop"]
  /\ UNCHANGED <<global_step, initialized, is_chief, stop_requested,
                 final_ckpt>>

\* leaving the with block: the hooks' end(); a chief writes a last checkpoint
\* unless its saver has already saved this very step
EndSession(w) ==
  /\ pc[w] = "end"
  /\ IF is_chief[w] /\ last_triggered[w] # global_step
       THEN /\ saving_step' = [saving_step EXCEPT ![w] = global_step]
            /\ pc' = [pc EXCEPT ![w] = "final_save"]
       ELSE /\ pc' = [pc EXCEPT ![w] = "done"]
            /\ UNCHANGED saving_step
  /\ UNCHANGED <<global_step, initialized, is_chief, stop_requested,
                 last_triggered, checkpoint_dir, latest, final_ckpt>>

\* the last checkpoint is complete, the session is closed, worker() returns
FinalSaveDone(w) ==
  /\ pc[w] = "final_save"
  /\ checkpoint_dir' = checkpoint_dir \cup {saving_step[w]}
  /\ latest' = saving_step[w]
  /\ last_triggered' = [last_triggered EXCEPT ![w] = saving_step[w]]
  /\ final_ckpt' = [final_ckpt EXCEPT ![w] = saving_step[w]]
  /\ saving_step' = [saving_step EXCEPT ![w] = NoStep]
  /\ pc' = [pc EXCEPT ![w] = "done"]
  /\ UNCHANGED <<global_step, initialized, is_chief, stop_requested>>

WorkerStep(w) ==
  \/ StartWorker(w)
  \/ CreateSession(w)
  \/ LoopTest(w)
  \/ RunTrainOp(w)
  \/ AfterRun(w)
  \/ SaveDone(w)
  \/ EndSession(w)
  \/ FinalSaveDone(w)

Next ==
  \/ \E t \in PsTasks : StartPs(t)
  \/ \E w \in WorkerTasks : StartWorker(w)
  \/ \E w \in WorkerTasks : CreateSession(w)
  \/ \E w \in WorkerTasks : LoopTest(w)
  \/ \E w \in WorkerTasks : RunTrainOp(w)
  \/ \E w \in WorkerTasks : AfterRun(w)
  \/ \E w \in WorkerTasks : SaveDone(w)
  \/ \E w \in WorkerTasks : EndSession(w)
  \/ \E w \in WorkerTasks : FinalSaveDone(w)

Spec == Init /\ [][Next]_vars

\* every task is a process of its own on a host of its own
Fairness ==
  /\ \A t \in PsTasks : WF_vars(StartPs(t))
  /\ \A w \in WorkerTasks : WF_vars(WorkerStep(w))

FairSpec == Spec /\ Fairness

\* ---- properties ---------------------------------------------------------

InLoop == {"loop", "run", "after_run", "save"}
Stopped == {"end", "final_save", "done"}
AllWorkersDone == \A w \in WorkerTasks : pc[w] = "done"

TypeOK ==
  /\ pc \in [cluster -> {"start", "join", "session", "loop", "run",
                         "after_run", "save", "end", "final_save", "done"}]
  /\ global_step \in 0..MaxStep
  /\ initialized \in BOOLEAN
  /\ is_chief \in [WorkerTasks -> BOOLEAN]
  /\ stop_requested \in [WorkerTasks -> BOOLEAN]
  /\ saving_step \in [WorkerTasks -> {NoStep} \cup (0..MaxStep)]
  /\ last_triggered \in [WorkerTasks -> {NoStep} \cup (0..MaxStep)]
  /\ checkpoint_dir \subseteq 0..MaxStep
  /\ latest \in {NoStep} \cup checkpoint_dir
  /\ final_ckpt \in [WorkerTasks -> {NoStep} \cup (0..MaxStep)]

\* C2 (as claimed): when training is over, exactly one final checkpoint has
\* been written, its global_step is the target step, and global_step has not
\* moved past the target.
C2_OneFinalCheckpointAtTarget ==
  AllWorkersDone =>
    /\ Cardinality({w \in WorkerTasks : final_ckpt[w] # NoStep}) = 1
    /\ \A w \in WorkerTasks : final_ckpt[w] \in {NoStep, LastStep}
    /\ global_step = LastStep

\* C3 (as claimed): a worker that has opened its session is the chief if and
\* only if its task_index is 0.
C3_ChiefIffTaskZero ==
  \A w \in WorkerTasks :
    pc[w] \notin {"start", "session"} => (is_chief[w] <=> task_index(w) = 0)

\* C4 (as claimed): under fair scheduling every task started by
\* worker(job_name, task_index), the ps task included, eventually terminates.
C4_AllTasksTerminate == <>(\A t \in cluster : pc[t] = "done")

\* C8: a sess.run(train_op) that has started is never abandoned: the worker
\* leaves it only with the update counted in global_step, and the worker
\* leaves its training loop only at the loop test, with the stop requested.
C8_RunNotInterrupted ==
  [][\A w \in WorkerTasks :
       /\ (pc[w] = "run" /\ pc'[w] # "run") =>
            (pc'[w] = "after_run" /\ global_step' = global_step + 1)
       /\ (pc[w] \in InLoop /\ pc'[w] \notin InLoop) =>
            (pc[w] = "loop" /\ stop_requested[w] /\ pc'[w] = "end")]_vars

\* C8 witness: a worker whose update was committed although the target step
\* had already been reached, and which has not yet seen the stop.
C8_Witness ==
  \E w \in WorkerTasks :
    pc[w] = "after_run" /\ ~stop_requested[w] /\ global_step > LastStep

\* C9 (as claimed): at most one checkpoint is being written at any time in
\* the whole cluster.
C9_OneSnapshotInFlight ==
  Cardinality({w \in WorkerTasks : pc[w] \in {"save", "final_save"}}) <= 1

====
